---- MODULE Spec2Model ----
(***************************************************************************)
(* A model of tsgo (src/ts.go, package tsgo, lines 1-354): the TeamSpeak 3 *)
(* Server Query bot.  Start (the caller's goroutine) dials, consumes the   *)
(* banner, logs in, selects the server and subscribes; listen spawns the   *)
(* listener goroutine; an interrupt on the kill channel starts shutdown.   *)
(*                                                                         *)
(* Text is modelled as a sequence of symbols.  A symbol is either one      *)
(* character that the code inspects (space, tab, "=", "\", "s", newline, a *)
(* digit, a sign) or a word that the code only ever compares as a whole    *)
(* ("error", "msg", "ok", ...).                                            *)
(***************************************************************************)
EXTENDS Integers, Sequences, FiniteSets, TLC

----------------------------------------------------------------------------
(* Symbols *)

SP == " "
TAB == "\t"
EQ == "="
BS == "\\"
NL == "\n"

\* unicode.IsSpace, restricted to the symbols of the model
IsSpace(c) == c \in {SP, TAB, NL}

Digits == <<"0", "1", "2", "3", "4", "5", "6", "7", "8", "9">>

IsDigit(c) == \E i \in 1..10 : Digits[i] = c

DigitVal(c) == (CHOOSE i \in 1..10 : Digits[i] = c) - 1

----------------------------------------------------------------------------
(* Program constants, src/ts.go lines 19-42 *)

BANNER_LENGTH == 2

LOGIN_WORD == <<"login">>

MSG_LISTENER_STRING == <<"servernotifyregister", SP, "event", EQ, "textchannel">>

SERVER_USE_WORD == <<"use">>

MSG_ACTION == <<"notifytextmessage">>

ErrInvalidResponse == "ErrInvalidResponse"

ErrNotConnected == "ErrNotConnected"

\* the capacity of the kill channel: make(chan os.Signal, 1)
KillCap == 1

----------------------------------------------------------------------------
(* Go's strings and strconv functions, as far as the code uses them *)

\* the longest prefix of s without a symbol satisfying the test
RECURSIVE TakeToken(_)
TakeToken(s) ==
    IF s = <<>> \/ IsSpace(Head(s)) THEN <<>>
    ELSE <<Head(s)>> \o TakeToken(Tail(s))

RECURSIVE DropN(_, _)
DropN(s, n) == IF n = 0 \/ s = <<>> THEN s ELSE DropN(Tail(s), n - 1)

\* strings.Fields: the maximal runs of non-space symbols, in order
RECURSIVE Fields(_)
Fields(s) ==
    IF s = <<>> THEN <<>>
    ELSE IF IsSpace(Head(s)) THEN Fields(Tail(s))
    ELSE LET tok == TakeToken(s)
         IN  <<tok>> \o Fields(DropN(s, Len(tok)))

\* the prefix of s before the first sep (all of s when there is none)
RECURSIVE UpTo(_, _)
UpTo(s, sep) ==
    IF s = <<>> \/ Head(s) = sep THEN <<>>
    ELSE <<Head(s)>> \o UpTo(Tail(s), sep)

\* strings.Split(s, sep) for a one-symbol separator: empty parts are kept
RECURSIVE Split(_, _)
Split(s, sep) ==
    LET first == UpTo(s, sep)
    IN  IF Len(first) = Len(s) THEN <<first>>
        ELSE <<first>> \o Split(DropN(s, Len(first) + 1), sep)

RECURSIVE TrimLeft(_)
TrimLeft(s) ==
    IF s # <<>> /\ IsSpace(Head(s)) THEN TrimLeft(Tail(s)) ELSE s

RECURSIVE TrimRight(_)
TrimRight(s) ==
    IF s # <<>> /\ IsSpace(s[Len(s)]) THEN TrimRight(SubSeq(s, 1, Len(s) - 1))
    ELSE s

\* strings.TrimSpace
TrimSpace(s) == TrimRight(TrimLeft(s))

\* strings.HasSuffix(msg, "\n")
HasNewlineSuffix(s) == s # <<>> /\ s[Len(s)] = NL

\* strings.ReplaceAll(reply, " ", "\\s")
RECURSIVE EscapeSpaces(_)
EscapeSpaces(s) ==
    IF s = <<>> THEN <<>>
    ELSE IF Head(s) = SP THEN <<BS, "s">> \o EscapeSpaces(Tail(s))
    ELSE <<Head(s)>> \o EscapeSpaces(Tail(s))

\* strings.ReplaceAll(msg, "\\s", " "): non-overlapping, left to right
RECURSIVE UnescapeSpaces(_)
UnescapeSpaces(s) ==
    IF s = <<>> THEN <<>>
    ELSE IF Len(s) >= 2 /\ s[1] = BS /\ s[2] = "s"
         THEN <<SP>> \o UnescapeSpaces(DropN(s, 2))
    ELSE <<Head(s)>> \o UnescapeSpaces(Tail(s))

RECURSIVE DigitsValue(_, _)
DigitsValue(s, acc) ==
    IF s = <<>> THEN acc ELSE DigitsValue(Tail(s), 10 * acc + DigitVal(Head(s)))

\* strconv.Atoi: an optional sign, then one or more decimal digits
Atoi(s) ==
    LET signed == s # <<>> /\ Head(s) \in {"+", "-"}
        body == IF signed THEN Tail(s) ELSE s
        good == body # <<>> /\ \A i \in 1..Len(body) : IsDigit(body[i])
    IN  IF ~good THEN [ok |-> FALSE, val |-> 0]
        ELSE [ok |-> TRUE,
              val |-> IF signed /\ Head(s) = "-" THEN 0 - DigitsValue(body, 0)
                      ELSE DigitsValue(body, 0)]

RECURSIVE NatToStr(_)
NatToStr(n) ==
    IF n < 10 THEN <<Digits[n + 1]>>
    ELSE NatToStr(n \div 10) \o <<Digits[(n % 10) + 1]>>

\* fmt.Sprintf("%d", n)
FormatInt(n) == IF n < 0 THEN <<"-">> \o NatToStr(0 - n) ELSE NatToStr(n)

----------------------------------------------------------------------------
(* The wire codec *)

\* a Go map lookup: the zero value "" for a missing key
Get(d, k) == IF k \in DOMAIN d THEN d[k] ELSE <<>>

\* vals[key] = val on a Go map
Put(d, k, v) == [x \in (DOMAIN d) \cup {k} |-> IF x = k THEN v ELSE d[x]]

EmptyMap == [x \in {} |-> <<>>]

\* a nil *response
NilResponse == [isNil |-> TRUE, Action |-> <<>>, Data |-> EmptyMap]

\* the loop "for _, f := range fields" of parseResponse: the map built from
\* the tokens, or the error of the first token without a "="
RECURSIVE ParseFields(_, _)
ParseFields(fields, vals) ==
    IF fields = <<>> THEN [err |-> "nil", vals |-> vals]
    ELSE LET spl == Split(Head(fields), EQ)
         IN  IF Len(spl) < 2 THEN [err |-> ErrInvalidResponse, vals |-> EmptyMap]
             ELSE ParseFields(Tail(fields), Put(vals, spl[1], TrimSpace(spl[2])))

\* tsBot.parseResponse: (r, err)
parseResponse(res) ==
    LET fields == Fields(res)
    IN  IF Len(fields) = 0 THEN [r |-> NilResponse, err |-> "nil"]
        ELSE LET p == ParseFields(Tail(fields), EmptyMap)
             IN  IF p.err # "nil" THEN [r |-> NilResponse, err |-> p.err]
                 ELSE [r |-> [isNil |-> FALSE, Action |-> Head(fields),
                              Data |-> p.vals],
                       err |-> "nil"]

\* response.Msg
Msg(r) ==
    IF <<"msg">> \notin DOMAIN r.Data THEN <<>>
    ELSE UnescapeSpaces(r.Data[<<"msg">>])

\* the bytes tsBot.write hands to server.Write
WireBytes(msg) == IF HasNewlineSuffix(msg) THEN msg ELSE msg \o <<NL>>

----------------------------------------------------------------------------
(* The configuration and the environment *)

\* a Config that New accepts: every string field non-empty
Cfg == [Username |-> <<"bot">>, Password |-> <<"pw">>, Server |-> 1]

\* how many lines the server delivers to the listener routine
MaxLines == 2

\* how many times the caller calls Start on the one tsBot
MaxStarts == 2

\* how long the texts are that the codec is applied to on its own
MaxLen == 5

\* the symbols of those texts: the space, the backslash and the s of the
\* escape, the = of the fields, and a letter
TextSymbols == {SP, BS, "s", EQ, "a"}

Texts == UNION {[1..n -> TextSymbols] : n \in 0..MaxLen}

\* the welcome banner
BannerLines == {<<"TS3">>}

\* what the server may answer to a bootstrap command
BootLines ==
    { <<"error", SP, "id", EQ, "0", SP, "msg", EQ, "ok">>,
      <<"error", SP, "id", EQ, "520", SP, "msg", EQ, "invalid", BS, "s", "password">>,
      <<"error", SP, "id", EQ, "0">>,
      <<"error", SP, "id">>,
      <<"notifytextmessage", SP, "msg", EQ, "ok">>,
      <<>>,
      <<SP>> }

\* what the server may push while the bot listens
ChatPing ==
    <<"notifytextmessage", SP, "msg", EQ, ".ping", SP, "invokerid", EQ, "5", SP,
      "invokername", EQ, "Bob", SP, "invokeruid", EQ, "abc">>

ChatEscaped ==
    <<"notifytextmessage", SP, "msg", EQ, "a", BS, "s", "b", SP,
      "invokerid", EQ, "+", "1", "2", SP, "invokeruid", EQ, "abc">>

ChatSelf ==
    <<"notifytextmessage", SP, "msg", EQ, "hi", SP, "invokerid", EQ, "5", SP,
      "invokeruid", EQ, "bot">>

OtherSelf == <<"notifycliententerview", SP, "invokeruid", EQ, "bot">>

ChatBadId ==
    <<"notifytextmessage", SP, "msg", EQ, "hi", SP, "invokerid", EQ, "x", SP,
      "invokeruid", EQ, "abc">>

ChatNoId == <<"notifytextmessage", SP, "msg", EQ, "hi", SP, "invokeruid", EQ, "abc">>

ChatUndecodable == <<"notifytextmessage", SP, "msg">>

AckLine == <<"error", SP, "id", EQ, "0", SP, "msg", EQ, "ok">>

EmptyLine == <<>>

BlankLine == <<SP>>

InLines ==
    { ChatPing, ChatEscaped, ChatSelf, OtherSelf, ChatBadId, ChatNoId,
      ChatUndecodable, AckLine, EmptyLine, BlankLine }

\* a line cut short by the failure of the stream: bufio.ScanLines hands the
\* bytes it holds to the caller as a last token
PartialLines == { <<"notifytextmessage", SP, "msg", EQ, "hi", SP, "invokerid", EQ, "5">> }

\* what the registered handler may return
Replies == { <<>>, <<"pong", SP, "ok">> }

----------------------------------------------------------------------------
(* The state *)

VARIABLES
    pcS,        \* where Start is: idle, banner, write, reply, waitkill, resend,
                \* close, waitclean, returned
    step,       \* the bootstrap command in progress: 1 login, 2 use, 3 register
    bannerRead, \* x of the banner loop
    bannerGot,  \* how many banner reads returned a line of the stream
    ret,        \* what Start returned
    server,     \* t.server: nil, open, closed
    scanErr,    \* the sticky error of t.reader (bufio.Scanner): none, eof,
                \* timeout, closed
    kill,       \* how many signals t.kill holds
    handler,    \* t.handler: nil or set
    pcL,        \* where the listener routine is: none, check, read, handler,
                \* reply, send, exited
    panic,      \* none, or where the process panicked
    lastRead,   \* the last t.read() of the listener routine
    inbox,      \* the lines the listener routine has read
    calls,      \* the handler invocations
    written,    \* the writes handed to the connection
    acks,       \* how many bootstrap commands were acknowledged
    cleanSent,  \* how many sends on t.clean completed
    closeErr,   \* the result of server.Close()
    result,     \* the last writeSuccess: the reply it read and what it did
                \* (returned nil or an error, or panicked)
    live,       \* how many listener routines were started and have not ended
    starts,     \* how many times Start was called on this tsBot
    pure        \* a function of the codec applied to a text, on its own

vars ==
    << pcS, step, bannerRead, bannerGot, ret, server, scanErr, kill, handler,
       pcL, panic, lastRead, inbox, calls, written, acks, cleanSent, closeErr,
       result, live, starts, pure >>

\* what no step of Start, of the listener routine or of the environment changes
otherVars == << starts, pure >>

\* all but pure
sessionVars == << pcS, step, bannerRead, bannerGot, ret, server, scanErr, kill,
                 handler, pcL, panic, lastRead, inbox, calls, written, acks,
                 cleanSent, closeErr, result, live, starts >>

startVars == << pcS, step, bannerRead, bannerGot, ret, acks, closeErr, result >>

listenVars == << lastRead, inbox, calls >>

\* Start has not returned
NoRet == [kind |-> "running", what |-> "", text |-> <<>>]

RetNil == [kind |-> "nil", what |-> "", text |-> <<>>]

RetErr(what, text) == [kind |-> "error", what |-> what, text |-> text]

\* a nil pointer dereference or a call of a nil func: the process dies
RetPanic == [kind |-> "panic", what |-> "", text |-> <<>>]

\* the codec applied to the text in, on its own: nothing applied yet
PureInput(in) ==
    [op |-> "input", in |-> in, esc |-> <<>>, unesc |-> <<>>,
     parsed |-> [r |-> NilResponse, err |-> "nil"]]

\* no function of the codec is being applied on its own
NoPure == [PureInput(<<>>) EXCEPT !.op = "none"]

NoRead == [res |-> <<>>, err |-> "nil", fail |-> "none"]

\* the state New leaves: no connection, an empty kill channel registered for
\* os.Interrupt, no handler
\* the tsBot as New returns it, Start not yet called
InitSession ==
    /\ pcS = "idle"
    /\ step = 0
    /\ bannerRead = 0
    /\ bannerGot = 0
    /\ ret = NoRet
    /\ server = "nil"
    /\ scanErr = "none"
    /\ kill = 0
    /\ handler = "nil"
    /\ pcL = "none"
    /\ panic = "none"
    /\ lastRead = NoRead
    /\ inbox = <<>>
    /\ calls = <<>>
    /\ written = <<>>
    /\ acks = 0
    /\ cleanSent = 0
    /\ closeErr = "nil"
    /\ result = [reply |-> <<>>, ret |-> NoRet]
    /\ live = 0
    /\ starts = 1

Init == InitSession /\ pure = NoPure

Running == panic = "none"

----------------------------------------------------------------------------
(* The connection *)

\* the ways a Read on the connection can fail
ReadFailures(deadline) ==
    IF server = "closed" THEN {"closed"}
    ELSE {"eof"} \cup (IF deadline THEN {"timeout"} ELSE {})

\* what one t.reader.Scan() can do: (token, ok, the scanner's error after it).
\* Once the scanner holds an error Scan returns false at once, for ever.
ScanOutcomes(lines, partial, deadline) ==
    IF scanErr # "none" THEN {[tok |-> <<>>, ok |-> FALSE, err |-> scanErr]}
    ELSE {[tok |-> l, ok |-> TRUE, err |-> "none"] : l \in lines}
         \cup {[tok |-> <<>>, ok |-> FALSE, err |-> f] : f \in ReadFailures(deadline)}
         \cup {[tok |-> l, ok |-> TRUE, err |-> f] :
                  l \in partial, f \in ReadFailures(deadline)}

\* tsBot.read on the outcome o of Scan: (res, err), and why Scan failed
read(o) ==
    IF server = "nil" THEN [res |-> <<>>, err |-> ErrNotConnected, fail |-> "none"]
    ELSE IF o.ok THEN [res |-> o.tok, err |-> "nil", fail |-> "none"]
    ELSE [res |-> <<>>, err |-> "nil", fail |-> o.err]

\* tsBot.write: the error it returns when server.Write succeeds or fails
write(ok) ==
    IF server = "nil" THEN ErrNotConnected
    ELSE IF ok /\ server = "open" THEN "nil"
    ELSE "io"

----------------------------------------------------------------------------
(* The caller's goroutine: New's result, AddHandler, Start *)

\* tsBot.AddHandler, called before Start
AddHandler ==
    /\ Running
    /\ pcS = "idle"
    /\ handler' = "set"
    /\ UNCHANGED << otherVars, live, pcS, step, bannerRead, bannerGot, ret,
                    server, scanErr, kill, pcL, panic, lastRead, inbox, calls,
                    written, acks, cleanSent, closeErr, result >>

\* os.Interrupt delivered to the channel given to signal.Notify: the signal
\* package never blocks, a signal that finds the channel full is dropped
Interrupt ==
    /\ Running
    /\ kill < KillCap
    /\ kill' = kill + 1
    /\ UNCHANGED << otherVars, live, startVars, listenVars, server, scanErr,
                    handler, pcL, panic, written, cleanSent >>

\* Start: net.Dial, t.server = conn, t.reader = bufio.NewScanner(conn)
StartDial ==
    /\ Running
    /\ pcS = "idle"
    /\ \E ok \in BOOLEAN :
          IF ok
          THEN /\ server' = "open"
               /\ scanErr' = "none"
               /\ pcS' = "banner"
               /\ bannerRead' = 0
               /\ ret' = ret
          ELSE /\ pcS' = "returned"
               /\ ret' = RetErr("dial", <<>>)
               /\ UNCHANGED << server, scanErr, bannerRead >>
    /\ UNCHANGED << otherVars, live, step, bannerGot, kill, handler, pcL,
                    panic, listenVars, written, acks, cleanSent, closeErr,
                    result >>

\* Start: one turn of the banner loop
StartBanner ==
    /\ Running
    /\ pcS = "banner"
    /\ \E o \in ScanOutcomes(BannerLines, {}, FALSE) :
          LET rd == read(o)
          IN  /\ scanErr' = o.err
              /\ IF rd.err # "nil"
                 THEN /\ pcS' = "returned"
                      /\ ret' = RetErr(rd.err, <<>>)
                      /\ UNCHANGED << bannerRead, bannerGot, step >>
                 ELSE /\ bannerRead' = bannerRead + 1
                      /\ bannerGot' = bannerGot + (IF o.ok THEN 1 ELSE 0)
                      /\ ret' = ret
                      /\ IF bannerRead + 1 < BANNER_LENGTH
                         THEN pcS' = pcS /\ step' = step
                         ELSE pcS' = "write" /\ step' = 1
    /\ UNCHANGED << otherVars, live, server, kill, handler, pcL, panic,
                    listenVars, written, acks, cleanSent, closeErr, result >>

\* the command of bootstrap step st: login (Start), then use and
\* servernotifyregister (listen)
Command(st) ==
    CASE st = 1 -> LOGIN_WORD \o <<SP>> \o Cfg.Username \o <<SP>> \o Cfg.Password
      [] st = 2 -> SERVER_USE_WORD \o <<SP>> \o FormatInt(Cfg.Server)
      [] OTHER  -> MSG_LISTENER_STRING

LastStep == 3

\* writeSuccess: t.write(msg)
WriteSuccessWrite ==
    /\ Running
    /\ pcS = "write"
    /\ \E ok \in BOOLEAN :
          LET e == write(ok)
          IN  /\ written' = IF e = ErrNotConnected THEN written
                            ELSE Append(written,
                                        [by |-> "boot", ev |-> 0,
                                         bytes |-> WireBytes(Command(step)),
                                         err |-> e])
              /\ IF e # "nil"
                 THEN pcS' = "returned" /\ ret' = RetErr(e, <<>>)
                 ELSE pcS' = "reply" /\ ret' = ret
    /\ UNCHANGED << otherVars, live, step, bannerRead, bannerGot, server,
                    scanErr, kill, handler, pcL, panic, listenVars, acks,
                    cleanSent, closeErr, result >>

\* writeSuccess after t.write: what it returns on the result rd of t.read()
writeSuccess(rd) ==
    IF rd.err # "nil" THEN RetErr(rd.err, <<>>)
    ELSE LET p == parseResponse(rd.res)
         IN  IF p.err # "nil" THEN RetErr(p.err, rd.res)
             ELSE IF p.r.isNil THEN RetPanic
             ELSE IF p.r.Action # <<"error">> THEN RetErr(ErrInvalidResponse, rd.res)
             ELSE IF Msg(p.r) # <<"ok">> THEN RetErr("server", Msg(p.r))
             ELSE RetNil

\* a listen that starts the listener routine before servernotifyregister is
\* sent
ListenSpawns_Early(st, res) == st >= LastStep - 1 /\ res.kind = "nil"

\* listen spawns the listener routine after its second writeSuccess
ListenSpawns(st, res) == st = LastStep /\ res.kind = "nil"

\* writeSuccess: t.read() and the check of the reply; then login returns to
\* Start, Start calls listen, and listen starts the listener routine
WriteSuccessRead ==
    /\ Running
    /\ pcS = "reply"
    /\ \E o \in ScanOutcomes(BootLines, {}, FALSE) :
          LET rd == read(o)
              res == writeSuccess(rd)
          IN  /\ scanErr' = o.err
              /\ result' = [reply |-> rd.res, ret |-> res]
              /\ panic' = IF res.kind = "panic" THEN "writeSuccess" ELSE panic
              /\ acks' = acks + (IF res.kind = "nil" THEN 1 ELSE 0)
              /\ pcL' = IF ListenSpawns(step, res) THEN "check" ELSE pcL
              /\ live' = live + (IF ListenSpawns(step, res) THEN 1 ELSE 0)
              /\ IF res.kind = "nil"
                 THEN /\ ret' = ret
                      /\ IF step < LastStep
                         THEN pcS' = "write" /\ step' = step + 1
                         ELSE pcS' = "waitkill" /\ step' = step
                 ELSE IF res.kind = "panic"
                 THEN UNCHANGED << pcS, ret, step >>
                 ELSE /\ pcS' = "returned"
                      /\ ret' = res
                      /\ step' = step
    /\ UNCHANGED << otherVars, bannerRead, bannerGot, server, kill, handler,
                    listenVars, written, cleanSent, closeErr >>

\* Start: <-t.kill
StartWaitKill ==
    /\ Running
    /\ pcS = "waitkill"
    /\ kill > 0
    /\ kill' = kill - 1
    /\ pcS' = "resend"
    /\ UNCHANGED << otherVars, live, step, bannerRead, bannerGot, ret, server,
                    scanErr, handler, pcL, panic, listenVars, written, acks,
                    cleanSent, closeErr, result >>

\* Start: t.kill <- os.Interrupt, a send that blocks while the channel is full
StartResend ==
    /\ Running
    /\ pcS = "resend"
    /\ kill < KillCap
    /\ kill' = kill + 1
    /\ pcS' = "close"
    /\ UNCHANGED << otherVars, live, step, bannerRead, bannerGot, ret, server,
                    scanErr, handler, pcL, panic, listenVars, written, acks,
                    cleanSent, closeErr, result >>

\* close: t.server.Close()
closeConn ==
    /\ Running
    /\ pcS = "close"
    /\ server' = "closed"
    /\ \E e \in {"nil", "io"} : closeErr' = e
    /\ pcS' = "waitclean"
    /\ UNCHANGED << otherVars, live, step, bannerRead, bannerGot, ret,
                    scanErr, kill, handler, pcL, panic, listenVars, written,
                    acks, cleanSent, result >>

\* a close that does not wait for the listener routine
CleanReceivable_NoWait == TRUE

\* t.clean is unbuffered: a receive completes only with the sender at its send
CleanReceivable == pcL = "send"

\* close: <-t.clean, meeting the listener routine's t.clean <- struct{}{};
\* then close and Start return
closeWait ==
    /\ Running
    /\ pcS = "waitclean"
    /\ CleanReceivable
    /\ cleanSent' = cleanSent + (IF pcL = "send" THEN 1 ELSE 0)
    /\ pcL' = IF pcL = "send" THEN "exited" ELSE pcL
    /\ live' = live - (IF pcL = "send" THEN 1 ELSE 0)
    /\ pcS' = "returned"
    /\ ret' = IF closeErr = "nil" THEN RetNil ELSE RetErr(closeErr, <<>>)
    /\ UNCHANGED << otherVars, step, bannerRead, bannerGot, server, scanErr,
                    kill, handler, panic, listenVars, written, acks, closeErr,
                    result >>

----------------------------------------------------------------------------
(* The listener routine: the goroutine of listen *)

\* os.IsTimeout on the error read returned
IsTimeout(err) == err = "timeout"

\* a listener routine without the guard
IsSelf_Never(r) == FALSE

\* the guard against the bot's own messages
IsSelf(r) == Get(r.Data, <<"invokeruid">>) = Cfg.Username

\* the Message handed to the handler
MessageOf(r, invId) ==
    [Msg |-> Msg(r), InvokerID |-> invId,
     InvokerName |-> Get(r.Data, <<"invokername">>),
     InvokerUID |-> Get(r.Data, <<"invokeruid">>)]

NoMessage == [Msg |-> <<>>, InvokerID |-> 0, InvokerName |-> <<>>, InvokerUID |-> <<>>]

Outcome(kind, m) == [kind |-> kind, m |-> m]

\* a loop body that gives up on a line it cannot decode or whose invokerid
\* is not a number
LoopBody_FatalEvent(rd) ==
    IF IsTimeout(rd.err) THEN Outcome("continue", NoMessage)
    ELSE IF rd.err # "nil" THEN Outcome("break", NoMessage)
    ELSE IF rd.res = <<>> \/ rd.res = <<NL>> THEN Outcome("continue", NoMessage)
    ELSE LET p == parseResponse(rd.res)
         IN  IF p.err # "nil" THEN Outcome("break", NoMessage)
             ELSE IF p.r.isNil THEN Outcome("panic", NoMessage)
             ELSE IF IsSelf(p.r) THEN Outcome("continue", NoMessage)
             ELSE IF p.r.Action # MSG_ACTION THEN Outcome("continue", NoMessage)
             ELSE LET invId == Atoi(Get(p.r.Data, <<"invokerid">>))
                  IN  IF ~invId.ok THEN Outcome("break", NoMessage)
                      ELSE IF handler = "nil" THEN Outcome("panic", NoMessage)
                      ELSE Outcome("call", MessageOf(p.r, invId.val))

\* the loop body from the result rd of t.read() to the call of the handler:
\* continue, break, panic (r is nil, or t.handler is nil), or call
LoopBody(rd) ==
    IF IsTimeout(rd.err) THEN Outcome("continue", NoMessage)
    ELSE IF rd.err # "nil" THEN Outcome("break", NoMessage)
    ELSE IF rd.res = <<>> \/ rd.res = <<NL>> THEN Outcome("continue", NoMessage)
    ELSE LET p == parseResponse(rd.res)
         IN  IF p.err # "nil" THEN Outcome("continue", NoMessage)
             ELSE IF p.r.isNil THEN Outcome("panic", NoMessage)
             ELSE IF IsSelf(p.r) THEN Outcome("continue", NoMessage)
             ELSE IF p.r.Action # MSG_ACTION THEN Outcome("continue", NoMessage)
             ELSE LET invId == Atoi(Get(p.r.Data, <<"invokerid">>))
                  IN  IF ~invId.ok THEN Outcome("continue", NoMessage)
                      ELSE IF handler = "nil" THEN Outcome("panic", NoMessage)
                      ELSE Outcome("call", MessageOf(p.r, invId.val))

\* a loop that goes on to its next turn while the handler is still running
ListenCheck_Async ==
    /\ Running
    /\ pcL \in {"check", "handler"}
    /\ pcL' = IF kill = 0 THEN "read" ELSE "send"
    /\ UNCHANGED << otherVars, live, startVars, listenVars, server, scanErr,
                    kill, handler, panic, written, cleanSent >>

\* the loop condition: for len(t.kill) == 0
ListenCheck ==
    /\ Running
    /\ pcL = "check"
    /\ pcL' = IF kill = 0 THEN "read" ELSE "send"
    /\ UNCHANGED << otherVars, live, startVars, listenVars, server, scanErr,
                    kill, handler, panic, written, cleanSent >>

\* the lines the server may still deliver
Deliverable(lines) == IF Len(inbox) < MaxLines THEN lines ELSE {}

\* SetReadDeadline, t.read(), and the loop body up to the call of the handler
ListenRead ==
    /\ Running
    /\ pcL = "read"
    /\ \E o \in ScanOutcomes(Deliverable(InLines), Deliverable(PartialLines), TRUE) :
          LET rd == read(o)
              out == LoopBody(rd)
          IN  /\ scanErr' = o.err
              /\ lastRead' = rd
              /\ inbox' = IF o.ok THEN Append(inbox, rd.res) ELSE inbox
              /\ panic' = IF out.kind = "panic" THEN "listener" ELSE panic
              /\ calls' = IF out.kind = "call"
                          THEN Append(calls, [ev |-> Len(inbox'), m |-> out.m,
                                              done |-> FALSE, reply |-> <<>>,
                                              err |-> FALSE])
                          ELSE calls
              /\ pcL' = CASE out.kind = "continue" -> "check"
                          [] out.kind = "break" -> "send"
                          [] out.kind = "call" -> "handler"
                          [] OTHER -> pcL
    /\ UNCHANGED << otherVars, live, startVars, server, kill, handler,
                    written, cleanSent >>

\* the handler returns (reply, err)
HandlerReturn ==
    /\ Running
    /\ pcL = "handler"
    /\ \E reply \in Replies, err \in BOOLEAN :
          /\ calls' = [calls EXCEPT ![Len(calls)] =
                          [@ EXCEPT !.done = TRUE, !.reply = reply, !.err = err]]
          /\ pcL' = IF err THEN "check"
                    ELSE IF reply # <<>> THEN "reply"
                    ELSE "check"
    /\ UNCHANGED << otherVars, live, startVars, lastRead, inbox, server,
                    scanErr, kill, handler, panic, written, cleanSent >>

\* a reply sent with its spaces as they are
ReplyCommand_Unescaped(invId, reply) ==
    <<"sendtextmessage", SP, "targetmode", EQ, "2", SP, "target", EQ>>
    \o FormatInt(invId) \o <<SP, "msg", EQ>> \o reply

\* fmt.Sprintf("sendtextmessage targetmode=2 target=%d msg=%s", invId, escaped)
ReplyCommand(invId, reply) ==
    <<"sendtextmessage", SP, "targetmode", EQ, "2", SP, "target", EQ>>
    \o FormatInt(invId) \o <<SP, "msg", EQ>> \o EscapeSpaces(reply)

\* t.write of the reply; the loop goes on whether it fails or not
ListenReply ==
    /\ Running
    /\ pcL = "reply"
    /\ \E ok \in BOOLEAN :
          LET c == calls[Len(calls)]
              e == write(ok)
          IN  written' = IF e = ErrNotConnected THEN written
                         ELSE Append(written,
                                     [by |-> "loop", ev |-> c.ev,
                                      bytes |-> WireBytes(ReplyCommand(c.m.InvokerID,
                                                                       c.reply)),
                                      err |-> e])
    /\ pcL' = "check"
    /\ UNCHANGED << otherVars, live, startVars, listenVars, server, scanErr,
                    kill, handler, panic, cleanSent >>

----------------------------------------------------------------------------
(* The specifications *)

StartNext ==
    \/ StartDial
    \/ StartBanner
    \/ WriteSuccessWrite
    \/ WriteSuccessRead
    \/ StartWaitKill
    \/ StartResend
    \/ closeConn
    \/ closeWait

ListenerNext ==
    \/ ListenCheck
    \/ ListenRead
    \/ HandlerReturn
    \/ ListenReply

Next ==
    \/ AddHandler
    \/ Interrupt
    \/ StartNext
    \/ ListenerNext

Spec == Init /\ [][Next]_vars

\* the Go scheduler runs every goroutine that can run; a handler that has been
\* called returns
FairSpec == Spec /\ WF_vars(StartNext) /\ WF_vars(ListenerNext)

\* Start called again on the same tsBot after it returned. The channels, the
\* handler and the fields server and reader stay as the last call left them
\* (a re-sent interrupt stays buffered); a listener routine that is still
\* running goes on running, and the records of its lines and calls with it.
\* What Start and listen hold in locals, and the records of a session whose
\* routine has ended, start afresh.
StartAgain ==
    /\ Running
    /\ pcS = "returned"
    /\ starts < MaxStarts
    /\ starts' = starts + 1
    /\ pcS' = "idle"
    /\ pcL' = IF pcL = "exited" THEN "none" ELSE pcL
    /\ step' = 0
    /\ bannerRead' = 0
    /\ bannerGot' = 0
    /\ acks' = 0
    /\ ret' = NoRet
    /\ closeErr' = "nil"
    /\ result' = [reply |-> <<>>, ret |-> NoRet]
    /\ IF pcL \in {"none", "exited"}
       THEN lastRead' = NoRead /\ inbox' = <<>> /\ calls' = <<>> /\ written' = <<>>
       ELSE UNCHANGED << lastRead, inbox, calls, written >>
    /\ UNCHANGED << pure, live, cleanSent, server, scanErr, kill, handler,
                    panic >>

\* the reply path of the listener routine: strings.ReplaceAll(reply, " ", "\\s")
PureEscape ==
    /\ pure.op = "input"
    /\ pure' = [pure EXCEPT !.op = "escaped", !.esc = EscapeSpaces(pure.in)]
    /\ UNCHANGED sessionVars

\* response.Msg on a response whose msg field is the escaped text
PureUnescape ==
    /\ pure.op = "escaped"
    /\ pure' = [pure EXCEPT
                   !.op = "unescaped",
                   !.unesc = Msg([isNil |-> FALSE, Action |-> <<"a">>,
                                  Data |-> Put(EmptyMap, <<"msg">>, pure.esc)])]
    /\ UNCHANGED sessionVars

\* parseResponse on the text as a line
PureParse ==
    /\ pure.op = "input"
    /\ pure' = [pure EXCEPT !.op = "parsed", !.parsed = parseResponse(pure.in)]
    /\ UNCHANGED sessionVars

PureNext ==
    \/ PureEscape
    \/ PureUnescape
    \/ PureParse

\* the functions of the codec, applied to every text of Texts
PureInit == InitSession /\ pure \in {PureInput(t) : t \in Texts}

PureSpec == PureInit /\ [][PureNext]_vars

RestartNext ==
    \/ Next
    \/ StartAgain

\* the caller may call Start again whenever it has returned
RestartSpec == Init /\ [][RestartNext]_vars

----------------------------------------------------------------------------
(* The session's phases *)

\* all three bootstrap commands were acknowledged and listen started the
\* listener routine
Listening == acks = LastStep

\* bootstrap ended short of Listening: Start returned, or the process died
BootEnded == acks < LastStep /\ (pcS = "returned" \/ panic # "none")

----------------------------------------------------------------------------
(* C1 *)

\* C1: in every execution of Start that reaches Listening, close (and with it
\* Start) has not returned unless the listener routine has completed its send
\* on clean, and no more than one send on clean ever completes.
C1_CloseAfterCompletion ==
    /\ cleanSent <= 1
    /\ (Listening /\ pcS = "returned") => (cleanSent = 1 /\ pcL = "exited")
    /\ (Listening /\ pcS # "returned") => pcL # "exited"

\* Start has returned from a session that listened and handled an event
C1_Witness ==
    Listening /\ pcS = "returned" /\ cleanSent = 1 /\ Len(calls) > 0

----------------------------------------------------------------------------
(* C2 *)

\* C2: once an interrupt is buffered while the session is Listening, the
\* transport is eventually closed, completion is signaled and Start returns.
\* The formula grants the claim that the process does not panic on the way.
C2_ShutdownCompletes ==
    (Listening /\ kill > 0)
        ~> ((pcS = "returned" /\ server = "closed" /\ cleanSent = 1)
            \/ panic # "none")

----------------------------------------------------------------------------
(* C3 *)

\* C3: when bootstrap ends short of Listening, Start has returned an error and
\* no listener routine exists.
C3_BootFailureReturnsError ==
    BootEnded => (ret.kind = "error" /\ pcL = "none")

----------------------------------------------------------------------------
(* C4 *)

\* the writes of bootstrap, in the order they were made
BootWrites == SelectSeq(written, LAMBDA w : w.by = "boot")

\* the three commands on the wire for Cfg
C4_Commands ==
    << <<"login", SP, "bot", SP, "pw", NL>>,
       <<"use", SP, "1", NL>>,
       <<"servernotifyregister", SP, "event", EQ, "textchannel", NL>> >>

\* C4: exactly two banner lines are consumed before any command is written;
\* the commands are login, use, servernotifyregister in this order, and each
\* is written only after the one before it was acknowledged with msg=ok.
C4_BootstrapOrder ==
    /\ BootWrites # <<>> => bannerGot = BANNER_LENGTH
    /\ Len(BootWrites) <= LastStep
    /\ \A i \in 1..Len(BootWrites) : BootWrites[i].bytes = C4_Commands[i]
    /\ Len(BootWrites) <= acks + 1

----------------------------------------------------------------------------
(* C5 *)

\* what the claim has writeSuccess return on a reply line
C5_Expected(line) ==
    LET p == parseResponse(line)
    IN  IF p.err # "nil" THEN RetErr(ErrInvalidResponse, line)
        ELSE IF p.r.isNil \/ p.r.Action # <<"error">>
        THEN RetErr(ErrInvalidResponse, line)
        ELSE IF Msg(p.r) = <<"ok">> THEN RetNil
        ELSE RetErr("server", Msg(p.r))

\* C5: after its write and its one read, writeSuccess returns a value for
\* every reply line: nil iff the line decodes to action "error" with msg "ok",
\* the server's msg text for action "error" with another msg, and
\* ErrInvalidResponse for every other line, a line without action included.
C5_WriteSuccessTotal ==
    result.ret # NoRet => result.ret = C5_Expected(result.reply)

----------------------------------------------------------------------------
(* C6 *)

\* the listener routine runs no more: it returned, or it died in the loop
LoopStopped == pcL = "exited" \/ panic = "listener"

\* C6: whatever stops the listener routine, it has signaled completion on
\* clean exactly once by then: never zero times, never twice.
C6_ExitSignalsOnce ==
    /\ cleanSent <= 1
    /\ LoopStopped => cleanSent = 1

----------------------------------------------------------------------------
(* C7 *)

\* C7: after a read that failed for another reason than the deadline (end of
\* stream, closed connection) the listener routine does not read again.
C7_NoReadAfterFailure ==
    ~(pcL = "read" /\ lastRead.fail \in {"eof", "closed"})

----------------------------------------------------------------------------
(* Events: the lines of inbox and what was done for each *)

\* the handler invocations made for line i of inbox
CallsFor(i) == {k \in 1..Len(calls) : calls[k].ev = i}

\* the replies handed to the connection for line i of inbox
WritesFor(i) == {k \in 1..Len(written) : written[k].by = "loop" /\ written[k].ev = i}

\* every line the listener routine can read, decoded
Decoded == [line \in InLines \cup PartialLines |-> parseResponse(line)]

\* the value of field k of a decoded line ("" when it has none)
FieldOf(line, k) == Get(Decoded[line].r.Data, <<k>>)

\* the line decodes to an action and fields
Decodes(line) == Decoded[line].err = "nil" /\ ~Decoded[line].r.isNil

\* the notifytextmessage lines that decode, have a numeric invokerid and do
\* not come from the bot itself
ChatEvents ==
    {line \in InLines \cup PartialLines :
        /\ Decodes(line)
        /\ Decoded[line].r.Action = <<"notifytextmessage">>
        /\ Atoi(FieldOf(line, "invokerid")).ok
        /\ FieldOf(line, "invokeruid") # Cfg.Username}

IsChatEvent(line) == line \in ChatEvents

\* the Message the claim has the handler receive for a chat event
C8_Message ==
    [line \in ChatEvents |->
        [Msg |-> UnescapeSpaces(FieldOf(line, "msg")),
         InvokerID |-> Atoi(FieldOf(line, "invokerid")).val,
         InvokerName |-> FieldOf(line, "invokername"),
         InvokerUID |-> FieldOf(line, "invokeruid")]]

\* text with every space replaced by \s
RECURSIVE C8_Escaped(_)
C8_Escaped(text) ==
    IF text = <<>> THEN <<>>
    ELSE (IF Head(text) = " " THEN <<"\\", "s">> ELSE <<Head(text)>>)
         \o C8_Escaped(Tail(text))

\* the reply command on the wire
C8_Reply(line, reply) ==
    <<"sendtextmessage", " ", "targetmode", "=", "2", " ", "target", "=">>
    \o FormatInt(C8_Message[line].InvokerID)
    \o <<" ", "msg", "=">> \o C8_Escaped(reply) \o <<"\n">>

\* the listener routine is between the handler's return and the write of the
\* reply for call k
ReplyPending(k) == k = Len(calls) /\ pcL = "reply"

----------------------------------------------------------------------------
(* C8 *)

\* C8: with a handler registered, for every chat event read (a
\* notifytextmessage line that decodes, with a numeric invokerid, not from the
\* bot itself) the handler is invoked exactly once, with the decoded Message;
\* a non-empty reply returned without error is written exactly once, as
\* "sendtextmessage targetmode=2 target=<invokerid> msg=<escaped reply>", and
\* nothing is written for an empty reply.
C8_ChatEventDispatch ==
    handler = "set" =>
        \A i \in 1..Len(inbox) :
            IsChatEvent(inbox[i]) =>
                /\ Cardinality(CallsFor(i)) = 1
                /\ \A k \in CallsFor(i) :
                      /\ calls[k].m = C8_Message[inbox[i]]
                      /\ IF calls[k].done /\ ~calls[k].err /\ calls[k].reply # <<>>
                            /\ ~ReplyPending(k)
                         THEN /\ Cardinality(WritesFor(i)) = 1
                              /\ \A w \in WritesFor(i) :
                                    written[w].bytes = C8_Reply(inbox[i], calls[k].reply)
                         ELSE WritesFor(i) = {}

\* the reply to an event with invokerid +12 was written, its space escaped
C8_Witness ==
    /\ handler = "set"
    /\ \E i \in 1..Len(inbox) :
          /\ inbox[i] = ChatEscaped
          /\ \E w \in WritesFor(i) :
                written[w].bytes =
                   <<"sendtextmessage", SP, "targetmode", EQ, "2", SP, "target", EQ,
                     "1", "2", SP, "msg", EQ, "pong", BS, "s", "ok", NL>>
    /\ \E k \in 1..Len(calls) : calls[k].done /\ calls[k].reply = <<>>

----------------------------------------------------------------------------
(* C9 *)

\* the lines that decode and whose invokeruid is the configured Username
SelfLines ==
    {line \in InLines \cup PartialLines :
        Decodes(line) /\ FieldOf(line, "invokeruid") = Cfg.Username}

SelfOriginated(line) == line \in SelfLines

\* C9: a line read whose invokeruid equals the configured Username is never
\* passed to the handler and no reply is written for it, whatever its action.
C9_SelfEchoGuard ==
    \A i \in 1..Len(inbox) :
        SelfOriginated(inbox[i]) => (CallsFor(i) = {} /\ WritesFor(i) = {})

\* the bot's own chat message and its own event of another action were read
\* with a handler registered, and the loop went on
C9_Witness ==
    /\ handler = "set"
    /\ inbox = <<ChatSelf, OtherSelf>>
    /\ pcL = "check"

----------------------------------------------------------------------------
(* C10 *)

\* the listener routine read a line in this step
ReadsLine == pcL = "read" /\ Len(inbox') = Len(inbox) + 1

\* the lines that do not decode, and the chat events without a numeric
\* invokerid
BadEvents ==
    {line \in InLines \cup PartialLines :
        \/ Decoded[line].err # "nil"
        \/ /\ Decodes(line)
           /\ ~SelfOriginated(line)
           /\ Decoded[line].r.Action = <<"notifytextmessage">>
           /\ ~Atoi(FieldOf(line, "invokerid")).ok}

BadEvent(line) == line \in BadEvents

\* C10: a line that fails to decode, a chat event whose invokerid is missing
\* or not a number, a handler error and a failed write of the reply are not
\* fatal: the handler is not invoked for the first two, nothing is written
\* after a handler error, and each time the listener routine is back at its
\* loop condition, alive.
C10_EventFailuresNotFatal ==
    [][ /\ (ReadsLine /\ BadEvent(inbox'[Len(inbox')]))
            => (pcL' = "check" /\ calls' = calls /\ panic' = "none"
                /\ written' = written)
        /\ (pcL = "handler" /\ pcL' # "handler" /\ calls'[Len(calls')].err)
            => (pcL' = "check" /\ written' = written /\ panic' = "none")
        /\ (pcL = "reply" /\ pcL' # "reply" /\ written'[Len(written')].err # "nil")
            => (pcL' = "check" /\ panic' = "none")
      ]_vars

\* after a line with a non-numeric invokerid, an undecodable line, a handler
\* error or a failed write, the listener routine has read and dispatched the
\* next line
C10_Witness ==
    /\ Len(inbox) = 2
    /\ inbox[1] \in {ChatBadId, ChatUndecodable, ChatNoId}
    /\ inbox[2] = ChatPing
    /\ CallsFor(2) # {}

----------------------------------------------------------------------------
(* C11 *)

\* Start is inside writeSuccess or the banner loop, reading from the
\* transport on the caller's goroutine
CorrelatorActive == pcS \in {"banner", "write", "reply"}

\* the listener routine was started and has not ended
LoopActive == pcL \notin {"none", "exited"}

\* C11: writeSuccess on the caller's goroutine and the listener routine
\* never use the transport at the same time: the routine exists only once
\* login, use and servernotifyregister were all acknowledged, Start is past
\* its last writeSuccess whenever the routine exists, and the three bootstrap
\* commands are all that writeSuccess ever wrote.
C11_TransportExclusive ==
    /\ ~(CorrelatorActive /\ LoopActive)
    /\ pcL # "none" => (acks = LastStep /\ ~CorrelatorActive /\ pcS # "idle")
    /\ Len(BootWrites) <= LastStep
    /\ \A k \in 1..Len(written) :
          written[k].by = "boot" => \A j \in 1..k : written[j].by = "boot"

\* the listener routine is blocked in read after a line arrived, Start
\* waits on kill
C11_Witness ==
    pcL = "read" /\ pcS = "waitkill" /\ Len(inbox) > 0 /\ Len(BootWrites) = LastStep

----------------------------------------------------------------------------
(* C12 *)

\* C12: however often the caller calls Start (and AddHandler) on one tsBot,
\* at most one listener routine of that tsBot is running at any time.
C12_OneListener == live <= 1

\* the first call's listener routine has ended with its send on clean, the
\* second call's routine is running
C12_Witness == starts = 2 /\ cleanSent = 1 /\ live = 1 /\ pcL = "check"

----------------------------------------------------------------------------
(* C13 *)

\* the replies the listener routine handed to the connection, in the order
\* of the writes
LoopWrites == SelectSeq(written, LAMBDA w : w.by = "loop")

\* call k is over: the handler returned, and the reply it asked for has been
\* handed to the connection
CallComplete(k) ==
    /\ calls[k].done
    /\ (calls[k].reply # <<>> /\ ~calls[k].err) =>
          \E j \in 1..Len(LoopWrites) : LoopWrites[j].ev = calls[k].ev

\* C13: the listener routine handles the events one at a time and in the
\* order of arrival: the handler invocations are made for ascending lines,
\* only the last one can be in progress, the invocation and the write of the
\* reply for a line are over before a later line is read, and the replies
\* are written in the order of the lines that caused them, each after its
\* handler returned.
C13_InOrderNoOverlap ==
    /\ \A k \in 1..Len(calls) :
          /\ calls[k].ev \in 1..Len(inbox)
          /\ k < Len(calls) => calls[k].ev < calls[k + 1].ev
          /\ ~calls[k].done => (k = Len(calls) /\ pcL = "handler")
          /\ calls[k].ev < Len(inbox) => CallComplete(k)
    /\ \A j \in 1..Len(LoopWrites) :
          /\ j < Len(LoopWrites) => LoopWrites[j].ev < LoopWrites[j + 1].ev
          /\ \E k \in 1..Len(calls) :
                /\ calls[k].ev = LoopWrites[j].ev
                /\ calls[k].done
                /\ calls[k].reply # <<>>

\* two events were handled one after the other, each with a reply written
C13_Witness ==
    /\ Len(calls) = 2
    /\ Len(LoopWrites) = 2
    /\ LoopWrites[1].ev = 1
    /\ LoopWrites[2].ev = 2

----------------------------------------------------------------------------
(* C14 *)

\* C14: for every reply text, unescaping the escaped text (response.Msg on
\* what the reply path sends) gives the text back, and escaping a text
\* without a space leaves it as it is.
C14_EscapeRoundTrip ==
    /\ pure.op = "unescaped" => pure.unesc = pure.in
    /\ (pure.op \in {"escaped", "unescaped"}
          /\ \A i \in 1..Len(pure.in) : pure.in[i] # SP) => pure.esc = pure.in

----------------------------------------------------------------------------
(* C15 *)

\* how many "=" the token has
RECURSIVE C15_CountEq(_)
C15_CountEq(tok) ==
    IF tok = <<>> THEN 0
    ELSE (IF Head(tok) = EQ THEN 1 ELSE 0) + C15_CountEq(Tail(tok))

\* the key and the value of a token with one "="
C15_Key(tok) == UpTo(tok, EQ)

C15_Value(tok) == DropN(tok, Len(C15_Key(tok)) + 1)

\* the reference: nothing for a line without tokens; the first token as the
\* action and the fields of the other tokens (the last one of a key counts)
\* when each of them has exactly one "="; ErrInvalidResponse otherwise
C15_Reference(line, p) ==
    LET toks == Fields(line)
    IN  IF toks = <<>> THEN p.err = "nil" /\ p.r.isNil
        ELSE IF \A i \in 2..Len(toks) : C15_CountEq(toks[i]) = 1
        THEN /\ p.err = "nil"
             /\ ~p.r.isNil
             /\ p.r.Action = toks[1]
             /\ DOMAIN p.r.Data = {C15_Key(toks[i]) : i \in 2..Len(toks)}
             /\ \A i \in 2..Len(toks) :
                   (\A j \in (i + 1)..Len(toks) : C15_Key(toks[j]) # C15_Key(toks[i]))
                      => p.r.Data[C15_Key(toks[i])] = C15_Value(toks[i])
        ELSE p.err = ErrInvalidResponse

\* C15: parseResponse gives what the reference gives, for every line.
C15_ParseMatchesReference ==
    pure.op = "parsed" => C15_Reference(pure.in, pure.parsed)

----------------------------------------------------------------------------
(* C16 *)

\* the listener routine reads one more line from the connection
ReadsNextLine == ListenRead /\ Len(inbox') = Len(inbox) + 1

\* C16: a read that ends with the deadline is a tick of the loop and no
\* more: it neither calls the handler nor stops the routine, and a line the
\* server sends after it can still be read by the routine's next read.
C16_DeadlineIsTick ==
    /\ lastRead.fail = "timeout" =>
          (pcL \notin {"handler", "reply"} /\ panic # "listener")
    /\ (pcL = "read" /\ Running /\ scanErr = "timeout" /\ server = "open"
          /\ Len(inbox) < MaxLines) => ENABLED ReadsNextLine

----------------------------------------------------------------------------
(* C17 *)

\* the lines for which parseResponse gives neither a response nor an error:
\* the empty line and the lines of nothing but white space
NoOpLines ==
    {line \in InLines \cup PartialLines :
        Decoded[line].err = "nil" /\ Decoded[line].r.isNil}

\* C17: a line for which the decoder gives the empty result is nothing to
\* process: the handler is not invoked, nothing is written, and the listener
\* routine is back at its loop condition, alive.
C17_NoOpLineSkipped ==
    [][ (ReadsLine /\ inbox'[Len(inbox')] \in NoOpLines)
            => (pcL' = "check" /\ calls' = calls /\ written' = written
                /\ panic' = "none")
      ]_vars

----------------------------------------------------------------------------
(* C18 *)

\* C18: however often and whenever the interrupt is delivered, once Start has
\* received from kill the shutdown completes: Start gets past its send into
\* kill, the listener routine and close meet on clean, and Start returns
\* (unless the process has died in the meantime).
C18_RepeatedInterrupt ==
    (pcS = "resend") ~> ((pcS = "returned" /\ cleanSent = 1) \/ panic # "none")

----------------------------------------------------------------------------
(* C19 *)

\* Start has been called and is not yet past listen
Bootstrapping == pcS \in {"idle", "banner", "write", "reply"}

\* C19: an interrupt delivered before the session is Listening stays in the
\* kill channel all through bootstrap, and it is enough: if bootstrap
\* succeeds Start goes on to close the connection, the listener routine
\* signals on clean, and Start returns (unless the process has died).
C19_EarlySignalKept ==
    /\ [][(Bootstrapping /\ kill > 0) => kill' > 0]_vars
    /\ (Bootstrapping /\ kill > 0) ~>
          \/ pcS = "returned" /\ (Listening => (server = "closed" /\ cleanSent = 1))
          \/ panic # "none"

----------------------------------------------------------------------------
(* C20 *)

\* C20: in a session started without AddHandler, a chat event that is read
\* goes by without a handler invocation and without ending the listener
\* routine, which stays alive for the shutdown handshake.
C20_NoHandlerTolerated ==
    (handler = "nil" /\ Len(inbox) > 0 /\ IsChatEvent(inbox[Len(inbox)]))
        => (panic = "none" /\ calls = <<>>)

----------------------------------------------------------------------------
(* C21 *)

\* Start has returned an error other than the error of net.Dial
FailedAfterDial == pcS = "returned" /\ ret.kind = "error" /\ ret.what # "dial"

\* C21: whenever Start returns an error after the dial succeeded, the
\* connection it opened has been closed by then.
C21_NoLeakOnFailedStart == FailedAfterDial => server = "closed"

============================================================================
